---- MODULE Spec2Model ----
(***************************************************************************)
(* A model of fl_main/lib/util/helpers.py and fl_main/lib/util/states.py:   *)
(* the state store (read_state / write_state), the model-set identity       *)
(* generator, the compatibility decoder, the model bundle file and the      *)
(* positional message enumerations.                                         *)
(*                                                                          *)
(* A Python str is a sequence of one-character strings, so that             *)
(* concatenation, formatting and parsing are computed and not assumed.      *)
(***************************************************************************)
EXTENDS Integers, Sequences, FiniteSets, TLC

VARIABLES
    file,       \* content of the state file {path}/{name}
    wpc,        \* writer: "idle" | "opened" (inside `with open(fname, 'w')`)
    wstate,     \* the `state` argument of the current / most recent write_state
    prev,       \* history: content of the state file when it was last truncated
    wrote,      \* history: some write_state call has completed
    rpc,        \* reader: "idle" | "reading" | "sleeping" | "done" | "RecursionError"
    st,         \* read_state's local `st`
    depth,      \* number of nested read_state frames below the outermost call
    result,     \* value returned by the outermost read_state call
    quiet,      \* history: the read began after a completed write, no write since
    ids,        \* identity generator: the two argument triples
    mids,       \* identity generator: the two generated model ids
    data_dict,  \* decoder: the argument of compatible_data_dict_read
    gen,        \* decoder: what generate_id() and time.time() returned in the call
    out,        \* decoder: the returned 4-tuple
    dpc,        \* decoder: "ready" | "decoded"
    caller,     \* bundle: the caller's data_dict object (save mutates it in place)
    orig,       \* history: the models mapping and performance handed to the last save
    disk,       \* bundle: content of the model file (pickled bytes) or NoFile
    loaded,     \* bundle: what load_model_file returned
    lpc,        \* bundle: "none" | "ok" | "KeyError"
    kind,       \* messages: which positional schema the message follows
    msg,        \* messages: the positional list
    sent        \* history: the value given for each field that was set

vars == <<file, wpc, wstate, prev, wrote, rpc, st, depth, result, quiet,
          ids, mids, data_dict, gen, out, dpc,
          caller, orig, disk, loaded, lpc, kind, msg, sent>>

storeVars == <<file, wpc, wstate, prev, wrote, rpc, st, depth, result, quiet>>
idVars == <<ids, mids>>
codecVars == <<data_dict, gen, out, dpc>>
bundleVars == <<caller, orig, disk, loaded, lpc>>
msgVars == <<kind, msg, sent>>

-----------------------------------------------------------------------------
(* Bounds *)

\* Nested read_state frames the interpreter allows before RecursionError
\* (CPython's default limit is 1000 frames; scaled down here).
RecursionLimit == 4

\* Largest whole-second timestamp drawn for generation_time.
MaxTime == 12

\* Longest component id drawn for generate_model_id.
MaxIdLen == 2

-----------------------------------------------------------------------------
(* str(int), int(str), str(float) *)

DigitChars == <<"0", "1", "2", "3", "4", "5", "6", "7", "8", "9">>

DigitVal(c) == (CHOOSE d \in 1..10 : DigitChars[d] = c) - 1

IsDigits(s) == Len(s) > 0 /\ \A i \in 1..Len(s) : \E d \in 1..10 : DigitChars[d] = s[i]

\* int(st) on a string that is no decimal number raises ValueError.
ValueError == -1

RECURSIVE Str(_)
Str(n) == IF n < 10 THEN <<DigitChars[n + 1]>>
          ELSE Str(n \div 10) \o <<DigitChars[(n % 10) + 1]>>

RECURSIVE DigitsValue(_)
DigitsValue(s) == IF Len(s) = 0 THEN 0
                  ELSE 10 * DigitsValue(SubSeq(s, 1, Len(s) - 1)) + DigitVal(s[Len(s)])

ParseInt(s) == IF IsDigits(s) THEN DigitsValue(s) ELSE ValueError

\* str(t) of a whole-valued float t: 2.0 -> "2.0".
FloatStr(t) == Str(t) \o <<".", "0">>

-----------------------------------------------------------------------------
(* states.py *)

ClientState == [waiting_gm |-> 0, training |-> 1, sending |-> 2, gm_ready |-> 3]

ClientStates == {ClientState[n] : n \in DOMAIN ClientState}

IDPrefix == [agent |-> <<"a", "g", "e", "n", "t">>,
             aggregator |-> <<"a", "g", "g", "r", "e", "g", "a", "t", "o", "r">>,
             db |-> <<"d", "a", "t", "a", "b", "a", "s", "e">>]

-----------------------------------------------------------------------------
(* State store: read_state / write_state *)

EmptyStr == <<>>

NoResult == -2

\* Mutant: the file opened in append mode, open(fname, 'a').
MutOpenAppend(old) == old

\* open(fname, 'w') truncates whatever the file held.
OpenedContent(old) == EmptyStr

\* Mutant: f.write(str(state)), the enumeration member's name, not its integer.
MutWriteMemberName(cur, state) == cur \o <<"C", "S", ".">> \o Str(state)

\* f.write(str(int(state))) puts the decimal digits after what the open left.
WrittenContent(cur, state) == cur \o Str(state)

\* open(fname, 'w'): the file is truncated; nothing is stored until the close.
write_state_open(s) ==
    /\ wpc = "idle"
    /\ wpc' = "opened"
    /\ wstate' = s
    /\ prev' = file
    /\ file' = OpenedContent(file)
    /\ quiet' = FALSE
    /\ UNCHANGED <<wrote, rpc, st, depth, result, idVars, codecVars, bundleVars, msgVars>>

\* f.write(str(int(state))) is buffered and reaches the file when the
\* `with` block closes it.
write_state_close ==
    /\ wpc = "opened"
    /\ wpc' = "idle"
    /\ file' = WrittenContent(file, wstate)
    /\ wrote' = TRUE
    /\ UNCHANGED <<wstate, prev, rpc, st, depth, result, quiet,
                   idVars, codecVars, bundleVars, msgVars>>

\* A caller enters read_state(path, name).
read_state_call ==
    /\ rpc = "idle"
    /\ rpc' = "reading"
    /\ depth' = 0
    /\ quiet' = (wpc = "idle" /\ wrote)
    /\ UNCHANGED <<file, wpc, wstate, prev, wrote, st, result,
                   idVars, codecVars, bundleVars, msgVars>>

\* Mutant: no test for empty content, int(st) at once.
MutReadNoRetry(s) == [pc |-> "done", value |-> ParseInt(s)]

\* What read_state does with the content it has read:
\* retry when it is empty, return int(st) otherwise.
ReadOutcome(s) == IF s = EmptyStr THEN [pc |-> "sleeping", value |-> NoResult]
                  ELSE [pc |-> "done", value |-> ParseInt(s)]

\* st = f.read(), and the test `st == ''` on the local value.
read_state_read ==
    /\ rpc = "reading"
    /\ st' = file
    /\ rpc' = ReadOutcome(file).pc
    /\ result' = ReadOutcome(file).value
    /\ UNCHANGED <<file, wpc, wstate, prev, wrote, depth, quiet,
                   idVars, codecVars, bundleVars, msgVars>>

\* time.sleep(0.01); return read_state(path, name): one more frame, and
\* RecursionError once the interpreter's limit is reached.
read_state_retry ==
    /\ rpc = "sleeping"
    /\ IF depth + 1 >= RecursionLimit
       THEN rpc' = "RecursionError" /\ depth' = depth
       ELSE rpc' = "reading" /\ depth' = depth + 1
    /\ UNCHANGED <<file, wpc, wstate, prev, wrote, st, result, quiet,
                   idVars, codecVars, bundleVars, msgVars>>

\* The caller has the value (or the exception) and may call again.
read_state_return ==
    /\ rpc \in {"done", "RecursionError"}
    /\ rpc' = "idle"
    /\ depth' = 0
    /\ st' = EmptyStr
    /\ result' = NoResult
    /\ UNCHANGED <<file, wpc, wstate, prev, wrote, quiet,
                   idVars, codecVars, bundleVars, msgVars>>

-----------------------------------------------------------------------------
(* Identity generator: generate_id / generate_model_id *)

\* sha256(raw).hexdigest(), taken to be injective: the digest is the tagged input.
sha256(raw) == <<"#">> \o raw

\* getmac's address of this machine.
gma == <<"m", "a", "c">>

generate_id(macaddr, in_time) == sha256(macaddr \o FloatStr(in_time))

\* raw = f'{component_type}{component_id}{generation_time}'
RawModelId(component_type, component_id, generation_time) ==
    component_type \o component_id \o FloatStr(generation_time)

generate_model_id(component_type, component_id, generation_time) ==
    sha256(RawModelId(component_type, component_id, generation_time))

IdChars == {"a", "1"}

RECURSIVE StringsUpTo(_)
StringsUpTo(n) == IF n = 0 THEN {EmptyStr}
                  ELSE StringsUpTo(n - 1) \cup
                       {s \o <<c>> : s \in StringsUpTo(n - 1), c \in IdChars}

ComponentIds == StringsUpTo(MaxIdLen) \ {EmptyStr}

Triples == [type : {IDPrefix[p] : p \in DOMAIN IDPrefix},
            id : ComponentIds,
            time : 0..MaxTime]

NoId == EmptyStr

\* One call generate_model_id(component_type, component_id, generation_time).
Generate(i) ==
    /\ mids[i] = NoId
    /\ mids' = [mids EXCEPT ![i] = generate_model_id(ids[i].type, ids[i].id, ids[i].time)]
    /\ UNCHANGED <<ids, storeVars, codecVars, bundleVars, msgVars>>

-----------------------------------------------------------------------------
(* Decoder: compatible_data_dict_read *)

EmptyDict == <<>>

HasKey(d, k) == k \in DOMAIN d

\* Values a payload may carry under each key.
ValsOf(k) ==
    CASE k = "my_id" -> {<<"X">>, <<"Y">>}
      [] k = "id" -> {<<"X">>}
      [] k = "gene_time" -> {100, 5}
      [] k = "models" -> {[m1 |-> "blob"], [m1 |-> "blob2"]}
      [] k = "model_id" -> {<<"M", "1">>, <<"M", "2">>}
      [] k = "modelA" -> {"blobA"}

PayloadKeys == {"my_id", "id", "gene_time", "models", "model_id", "modelA"}

RECURSIVE Dicts(_)
Dicts(keys) ==
    IF keys = {} THEN {EmptyDict}
    ELSE LET k == CHOOSE x \in keys : TRUE
             rest == Dicts(keys \ {k})
         IN  rest \cup {(k :> v) @@ d : v \in ValsOf(k), d \in rest}

\* Successive readings of time.time() within one call.
ClockTimes == {7, 8}

NoGen == [id |-> EmptyStr, time |-> 0]

NoOut == <<EmptyStr, 0, EmptyDict, EmptyStr>>

\* Mutant: one test for the legacy format; a payload without 'models' gets
\* every default, whatever else it carries.
MutDecodeLegacyOrStructured(d, new_id, now) ==
    IF HasKey(d, "models")
    THEN <<IF HasKey(d, "my_id") THEN d["my_id"] ELSE new_id,
           IF HasKey(d, "gene_time") THEN d["gene_time"] ELSE now,
           d["models"],
           IF HasKey(d, "model_id") THEN d["model_id"]
           ELSE generate_model_id(IDPrefix.agent,
                                IF HasKey(d, "my_id") THEN d["my_id"] ELSE new_id,
                                IF HasKey(d, "gene_time") THEN d["gene_time"] ELSE now)>>
    ELSE <<new_id, now, d, generate_model_id(IDPrefix.agent, new_id, now)>>

\* Mutant: the component id read under the key 'id'.
MutDecodeIdKey(d, new_id, now) ==
    LET id == IF HasKey(d, "id") THEN d["id"] ELSE new_id
        gene_time == IF HasKey(d, "gene_time") THEN d["gene_time"] ELSE now
        models == IF HasKey(d, "models") THEN d["models"] ELSE d
        model_id == IF HasKey(d, "model_id") THEN d["model_id"]
                    ELSE generate_model_id(IDPrefix.agent, id, gene_time)
    IN  <<id, gene_time, models, model_id>>

\* compatible_data_dict_read(data_dict), where new_id is what generate_id()
\* returns and now what time.time() returns if they are called.
compatible_data_dict_read(d, new_id, now) ==
    LET id == IF HasKey(d, "my_id") THEN d["my_id"] ELSE new_id
        gene_time == IF HasKey(d, "gene_time") THEN d["gene_time"] ELSE now
        models == IF HasKey(d, "models") THEN d["models"] ELSE d
        model_id == IF HasKey(d, "model_id") THEN d["model_id"]
                    ELSE generate_model_id(IDPrefix.agent, id, gene_time)
    IN  <<id, gene_time, models, model_id>>

Decode ==
    /\ dpc = "ready"
    /\ \E t1 \in ClockTimes, t2 \in ClockTimes :
          /\ t1 <= t2
          /\ gen' = [id |-> generate_id(gma, t1), time |-> t2]
    /\ out' = compatible_data_dict_read(data_dict, gen'.id, gen'.time)
    /\ dpc' = "decoded"
    /\ UNCHANGED <<data_dict, storeVars, idVars, bundleVars, msgVars>>

-----------------------------------------------------------------------------
(* Model bundle file: save_model_file / load_model_file *)

DictSet(d, k, v) == [x \in DOMAIN d \cup {k} |-> IF x = k THEN v ELSE d[x]]

DictRemove(d, k) == [x \in DOMAIN d \ {k} |-> d[x]]

\* pickle.dump: the mapping as a list of (key, value) items.
RECURSIVE Pickle(_)
Pickle(d) ==
    IF DOMAIN d = {} THEN <<>>
    ELSE LET k == CHOOSE x \in DOMAIN d : TRUE
         IN  <<(<<k, d[k]>>)>> \o Pickle(DictRemove(d, k))

\* pickle.load: the mapping rebuilt from the items.
Unpickle(b) ==
    [k \in {b[i][1] : i \in 1..Len(b)} |->
        b[CHOOSE i \in 1..Len(b) : b[i][1] = k][2]]

\* Payloads a models mapping may carry under each key.
ModelVals(k) ==
    CASE k = "modelX" -> {"v", "w"}
      [] k = "modelY" -> {"u"}
      [] k = "performance" -> {[layer |-> "p"]}

RECURSIVE ModelDicts(_)
ModelDicts(keys) ==
    IF keys = {} THEN {EmptyDict}
    ELSE LET k == CHOOSE x \in keys : TRUE
             rest == ModelDicts(keys \ {k})
         IN  rest \cup {(k :> v) @@ d : v \in ModelVals(k), d \in rest}

\* Scores are hundredths: 0.9 is 90.
PerformanceDicts == {EmptyDict, [modelX |-> 90], [modelX |-> 90, modelY |-> 50]}

NoOrig == [saved |-> FALSE, models |-> EmptyDict, performance |-> EmptyDict]

NoLoaded == <<EmptyDict, EmptyDict>>

\* save_model_file(data_dict, path, name, performance_dict) on the caller's
\* mapping object: the performance entry is stored into that object, which
\* is then pickled to the file.
save_model_file(performance_dict) ==
    /\ caller' = DictSet(caller, "performance", performance_dict)
    /\ disk' = Pickle(caller')
    /\ orig' = [saved |-> TRUE, models |-> caller, performance |-> performance_dict]
    /\ loaded' = NoLoaded
    /\ lpc' = "none"
    /\ UNCHANGED <<storeVars, idVars, codecVars, msgVars>>

\* Mutant: data_dict['performance'] read without popping it.
MutLoadNoPop(d) ==
    IF HasKey(d, "performance")
    THEN [pc |-> "ok", value |-> <<d, d["performance"]>>]
    ELSE [pc |-> "KeyError", value |-> NoLoaded]

\* What load_model_file returns for an unpickled mapping:
\* data_dict.pop('performance') raises KeyError when the key is missing.
LoadResult(d) ==
    IF HasKey(d, "performance")
    THEN [pc |-> "ok", value |-> <<DictRemove(d, "performance"), d["performance"]>>]
    ELSE [pc |-> "KeyError", value |-> NoLoaded]

load_model_file ==
    /\ lpc = "none"
    /\ lpc' = LoadResult(Unpickle(disk)).pc
    /\ loaded' = LoadResult(Unpickle(disk)).value
    /\ UNCHANGED <<caller, orig, disk, storeVars, idVars, codecVars, msgVars>>

\* The caller takes another mapping object for the next save.
NewModels(m) ==
    /\ lpc # "none"
    /\ caller # m
    /\ caller' = m
    /\ UNCHANGED <<orig, disk, loaded, lpc, storeVars, idVars, codecVars, msgVars>>

-----------------------------------------------------------------------------
(* Positional message enumerations *)

\* Mutant: sim_flag given init_flag's value (an alias in an IntEnum).
MutParticipateDuplicate ==
    [msg_type |-> 0, agent_id |-> 1, model_id |-> 2, lmodels |-> 3, init_flag |-> 4,
     sim_flag |-> 4, exch_socket |-> 6, gene_time |-> 7, meta_data |-> 8,
     agent_ip |-> 9]

ParticipateMSGLocation ==
    [msg_type |-> 0, agent_id |-> 1, model_id |-> 2, lmodels |-> 3, init_flag |-> 4,
     sim_flag |-> 5, exch_socket |-> 6, gene_time |-> 7, meta_data |-> 8,
     agent_ip |-> 9]

DBPushMsgLocation ==
    [msg_type |-> 0, component_id |-> 1, round |-> 2, model_type |-> 3, models |-> 4,
     model_id |-> 5, gene_time |-> 6, meta_data |-> 7, req_id_list |-> 8]

GMDistributionMsgLocation ==
    [msg_type |-> 0, aggregator_id |-> 1, model_id |-> 2, round |-> 3,
     global_models |-> 4]

Location(k) ==
    CASE k = "participate" -> ParticipateMSGLocation
      [] k = "push" -> DBPushMsgLocation
      [] k = "distribution" -> GMDistributionMsgLocation

MsgKinds == {"participate", "push", "distribution"}

Unset == "None"

FieldValues == {"v1", "v2"}

\* A list with one slot per member of the enumeration.
BlankMsg(k) == [i \in 1..Cardinality(DOMAIN Location(k)) |-> Unset]

\* msg[int(Location.field)] = v
SetField(f, v) ==
    /\ f \in DOMAIN Location(kind)
    /\ sent[f] = Unset
    /\ Location(kind)[f] + 1 \in DOMAIN msg
    /\ msg' = [msg EXCEPT ![Location(kind)[f] + 1] = v]
    /\ sent' = [sent EXCEPT ![f] = v]
    /\ UNCHANGED <<kind, storeVars, idVars, codecVars, bundleVars>>

AllFields == UNION {DOMAIN Location(k) : k \in MsgKinds}

-----------------------------------------------------------------------------
(* Specifications *)

StoreIdle ==
    /\ file = Str(ClientState.waiting_gm) /\ prev = file /\ wpc = "idle"
    /\ wstate = ClientState.waiting_gm /\ wrote = FALSE
    /\ rpc = "idle" /\ st = EmptyStr /\ depth = 0 /\ result = NoResult
    /\ quiet = FALSE

IdIdle == ids = <<>> /\ mids = <<>>

CodecIdle == data_dict = EmptyDict /\ gen = NoGen /\ out = NoOut /\ dpc = "off"

BundleIdle ==
    /\ caller = EmptyDict /\ orig = NoOrig /\ disk = <<>>
    /\ loaded = NoLoaded /\ lpc = "off"

MsgIdle == kind = "off" /\ msg = <<>> /\ sent = <<>>

\* The state record exists and holds one of the four states.
InitStore ==
    /\ \E s \in ClientStates :
          /\ file = Str(s)
          /\ wstate = s
    /\ prev = file
    /\ wpc = "idle"
    /\ wrote = FALSE
    /\ rpc = "idle" /\ st = EmptyStr /\ depth = 0 /\ result = NoResult
    /\ quiet = FALSE
    /\ IdIdle /\ CodecIdle /\ BundleIdle /\ MsgIdle

NextStore ==
    \/ \E s \in ClientStates : write_state_open(s)
    \/ write_state_close
    \/ read_state_call
    \/ read_state_read
    \/ read_state_retry
    \/ read_state_return

SpecStore == InitStore /\ [][NextStore]_vars

InitId ==
    /\ ids \in Triples \X Triples
    /\ mids = <<NoId, NoId>>
    /\ StoreIdle /\ CodecIdle /\ BundleIdle /\ MsgIdle

NextId == \E i \in 1..2 : Generate(i)

SpecId == InitId /\ [][NextId]_vars

InitCodec ==
    /\ data_dict \in Dicts(PayloadKeys)
    /\ gen = NoGen
    /\ out = NoOut
    /\ dpc = "ready"
    /\ StoreIdle /\ IdIdle /\ BundleIdle /\ MsgIdle

NextCodec == Decode

SpecCodec == InitCodec /\ [][NextCodec]_vars

\* A model file written by an older version (no performance entry) is on disk.
InitBundle ==
    /\ caller \in ModelDicts({"modelX", "modelY", "performance"})
    /\ orig = NoOrig
    /\ disk \in {Pickle(d) : d \in ModelDicts({"modelX", "modelY"})}
    /\ loaded = NoLoaded
    /\ lpc = "none"
    /\ StoreIdle /\ IdIdle /\ CodecIdle /\ MsgIdle

NextBundle ==
    \/ \E p \in PerformanceDicts : save_model_file(p)
    \/ load_model_file
    \/ \E m \in ModelDicts({"modelX", "modelY", "performance"}) : NewModels(m)

SpecBundle == InitBundle /\ [][NextBundle]_vars

InitMsg ==
    /\ kind \in MsgKinds
    /\ msg = BlankMsg(kind)
    /\ sent = [f \in DOMAIN Location(kind) |-> Unset]
    /\ StoreIdle /\ IdIdle /\ CodecIdle /\ BundleIdle

NextMsg == \E f \in AllFields, v \in FieldValues : SetField(f, v)

SpecMsg == InitMsg /\ [][NextMsg]_vars

-----------------------------------------------------------------------------
(* Claims on the state store, under SpecStore *)

NextInCycle(s) == (s + 1) % 4

\* C1 as stated: a completed write leaves the stored state unchanged or moves
\* it to the successor, in the cycle waiting_gm -> training -> sending ->
\* gm_ready -> waiting_gm, of the state stored before the write.
C1_LifecycleOnly ==
    wpc = "idle" =>
        \/ ParseInt(file) = ParseInt(prev)
        \/ ParseInt(file) = NextInCycle(ParseInt(prev))

\* C1 amended: write_state stores the state it is given whatever state was
\* stored before. The record holds the decimal digit of one of the four
\* states, or nothing while a write is in progress, and once a write has
\* completed the stored state is the one that write was given.
C1_WriteStoresGivenState ==
    /\ file \in {EmptyStr} \cup {Str(s) : s \in ClientStates}
    /\ (wpc = "opened") = (file = EmptyStr)
    /\ (wpc = "idle" /\ wrote) => ParseInt(file) = wstate

\* A completed write that went from waiting_gm straight to sending.
C1_Witness ==
    /\ wpc = "idle" /\ wrote
    /\ ParseInt(prev) = ClientState.waiting_gm
    /\ ParseInt(file) = ClientState.sending

\* C2: a read_state call that begins after write_state(S) has completed, with
\* no write beginning before it returns, returns the integer value of S.
C2_WriteThenRead == (rpc = "done" /\ quiet) => result = wstate

\* write_state(gm_ready) over a stored training, then a read that returned.
C2_Witness ==
    /\ rpc = "done" /\ quiet
    /\ prev = Str(ClientState.training)
    /\ wstate = ClientState.gm_ready
    /\ result = ClientState.gm_ready

\* C3: in every interleaving of a read with a write (truncate, then store),
\* a read that finds the record empty does not return but goes on to retry,
\* and a read that returns gives one of the four states: the state stored
\* before the write began or the state the write stores.
C3_ReadOldOrNew ==
    /\ [](rpc = "done" => result \in ClientStates)
    /\ [][(rpc = "reading" /\ rpc' # "reading") =>
             /\ (file = EmptyStr) = (rpc' = "sleeping")
             /\ rpc' = "done" => result' \in {ParseInt(prev), wstate}]_vars

\* A read that found the record truncated, retried, and returned the state
\* the write stored, which differs from the one stored before.
C3_Witness ==
    /\ rpc = "done" /\ depth > 0
    /\ result = wstate
    /\ result # ParseInt(prev)

\* C10 as stated: a read_state call that finds the record empty never
\* reports an error, however many times it has to retry.
C10_EmptyReadNeverErrors == rpc # "RecursionError"

-----------------------------------------------------------------------------
(* Claims on the decoder, under SpecCodec *)

EnvelopeKeys == {"my_id", "gene_time", "models", "model_id"}

\* C4: each of the four returned fields is the payload's value when the
\* payload has the field and its own default when it has not, whichever
\* other fields are there: a generated id, the current time, the whole
\* payload, generate_model_id(agent, returned id, returned gene_time).
C4_IndependentDefaults ==
    dpc = "decoded" =>
        /\ ("my_id" \in DOMAIN data_dict) => out[1] = data_dict["my_id"]
        /\ ("my_id" \notin DOMAIN data_dict) => out[1] = gen.id
        /\ ("gene_time" \in DOMAIN data_dict) => out[2] = data_dict["gene_time"]
        /\ ("gene_time" \notin DOMAIN data_dict) => out[2] = gen.time
        /\ ("models" \in DOMAIN data_dict) => out[3] = data_dict["models"]
        /\ ("models" \notin DOMAIN data_dict) => out[3] = data_dict
        /\ ("model_id" \in DOMAIN data_dict) => out[4] = data_dict["model_id"]
        /\ ("model_id" \notin DOMAIN data_dict) =>
               out[4] = sha256(IDPrefix.agent \o out[1] \o FloatStr(out[2]))

\* All 16 subsets of the envelope keys are among the payloads, and a payload
\* with only gene_time of the four (and a legacy entry) has been decoded.
C4_Witness ==
    /\ \A S \in SUBSET EnvelopeKeys :
          \E d \in Dicts(PayloadKeys) : DOMAIN d \cap EnvelopeKeys = S
    /\ dpc = "decoded"
    /\ DOMAIN data_dict = {"gene_time", "modelA"}
    /\ out[2] = 100
    /\ out[3] = data_dict
    /\ out[1] = gen.id

SpecKeysPayload ==
    [id |-> <<"X">>, gene_time |-> 100, models |-> [m1 |-> "blob"],
     model_id |-> <<"M", "1">>]

MyIdPayload ==
    [my_id |-> <<"X">>, gene_time |-> 100, models |-> [m1 |-> "blob"],
     model_id |-> <<"M", "1">>]

\* C5 as stated: the payload {id: "X", gene_time: 100.0, models: {m1: blob},
\* model_id: "M1"} decodes to exactly ("X", 100.0, {m1: blob}, "M1").
C5_SpecKeysDecodeExactly ==
    (dpc = "decoded" /\ data_dict = SpecKeysPayload) =>
        out = <<(<<"X">>), 100, [m1 |-> "blob"], (<<"M", "1">>)>>

\* C5 amended: the payload that carries the component id under the key
\* my_id decodes to exactly ("X", 100.0, {m1: blob}, "M1"); with the id under
\* the key id instead, the returned id is a generated one and the other
\* three fields are the payload's.
C5_MyIdDecodeExactly ==
    /\ (dpc = "decoded" /\ data_dict = MyIdPayload) =>
           out = <<(<<"X">>), 100, [m1 |-> "blob"], (<<"M", "1">>)>>
    /\ (dpc = "decoded" /\ data_dict = SpecKeysPayload) =>
           out = <<gen.id, 100, [m1 |-> "blob"], (<<"M", "1">>)>>

\* The my_id payload has been decoded.
C5_Witness ==
    /\ dpc = "decoded"
    /\ data_dict = MyIdPayload
    /\ out[1] = <<"X">>

-----------------------------------------------------------------------------
(* Claims on the model bundle file, under SpecBundle *)

\* C6 as stated: for every models mapping M and performance P, a load after
\* save(M, P) returns (M, P), with no performance key in the models returned.
C6_AnyModelsRoundTrip ==
    (lpc = "ok" /\ orig.saved) =>
        /\ loaded = <<orig.models, orig.performance>>
        /\ "performance" \notin DOMAIN loaded[1]

\* C6 amended: a load after save(M, P) returns P as the performance and, as
\* the models, M without its entry under the key performance: M itself,
\* entry for entry, when M has no such entry.
C6_RoundTripButPerformanceKey ==
    (lpc = "ok" /\ orig.saved) =>
        /\ loaded[2] = orig.performance
        /\ DOMAIN loaded[1] = DOMAIN orig.models \ {"performance"}
        /\ \A k \in DOMAIN loaded[1] : loaded[1][k] = orig.models[k]
        /\ ("performance" \notin DOMAIN orig.models) => loaded[1] = orig.models

\* {modelX: v} saved with {modelX: 0.9}, then loaded.
C6_Witness ==
    /\ lpc = "ok" /\ orig.saved
    /\ orig.models = [modelX |-> "v"]
    /\ orig.performance = [modelX |-> 90]
    /\ loaded = <<[modelX |-> "v"], [modelX |-> 90]>>

\* C7 as stated: loading a bundle that has no performance entry does not
\* fail; it returns every stored entry as models, and an empty performance.
C7_OldFormatLoads ==
    (lpc # "none" /\ "performance" \notin DOMAIN Unpickle(disk)) =>
        /\ lpc = "ok"
        /\ loaded = <<Unpickle(disk), EmptyDict>>

-----------------------------------------------------------------------------
(* Claim on the identity generator, under SpecId *)

\* C8 as stated: two calls whose component ids differ or whose generation
\* times differ return different model ids (the hash being injective).
C8_DistinctIds ==
    (/\ mids[1] # NoId
     /\ mids[2] # NoId
     /\ (ids[1].id # ids[2].id \/ ids[1].time # ids[2].time)) =>
        mids[1] # mids[2]

-----------------------------------------------------------------------------
(* Claim on the message enumerations, under SpecMsg *)

\* The field order the message schemas declare, in the members' names.
DeclaredOrder(k) ==
    CASE k = "participate" ->
           <<"msg_type", "agent_id", "model_id", "lmodels", "init_flag", "sim_flag",
             "exch_socket", "gene_time", "meta_data", "agent_ip">>
      [] k = "push" ->
           <<"msg_type", "component_id", "round", "model_type", "models", "model_id",
             "gene_time", "meta_data", "req_id_list">>
      [] k = "distribution" ->
           <<"msg_type", "aggregator_id", "model_id", "round", "global_models">>

\* C9: each enumeration gives its fields, in the declared order, the
\* positions 0..n-1, and every field set in a message at its position is
\* read back unchanged at that position.
C9_PositionsAsDeclared ==
    /\ \A k \in MsgKinds :
          /\ DOMAIN Location(k) = {DeclaredOrder(k)[i] : i \in 1..Len(DeclaredOrder(k))}
          /\ \A i \in 1..Len(DeclaredOrder(k)) :
                Location(k)[DeclaredOrder(k)[i]] = i - 1
    /\ \A f \in DOMAIN sent : msg[Location(kind)[f] + 1] = sent[f]

\* A participate message with all ten fields set, two neighbours differently.
C9_Witness ==
    /\ kind = "participate"
    /\ \A f \in DOMAIN sent : sent[f] # Unset
    /\ sent["init_flag"] = "v1" /\ sent["sim_flag"] = "v2"
    /\ msg[5] = "v1" /\ msg[6] = "v2"

====
